---- MODULE Spec2Model ----
(***************************************************************************)
(* Model of src/src/nnpipe.rs: the bloom post-processing pipeline Nnpipe.   *)
(* The pipeline is built once by Nnpipe::new, driven per frame by           *)
(* Nnpipe::process (five queue submissions followed by a blocking device    *)
(* poll) and tuned by five parameter setters that stage uniform writes on   *)
(* the queue.  The GPU executes the queue asynchronously, in queue order.   *)
(* The model records what the code asks of the device (descriptors, staged  *)
(* writes, submissions); the device's own validation of those requests is   *)
(* not part of the source and is not modelled.                              *)
(***************************************************************************)
EXTENDS Integers, Sequences, FiniteSets, TLC

\* ------------------------------------------------------------------ bounds

\* Cap on the number of setter calls in one behaviour.
MaxSetterCalls == 2

\* -------------------------------------------------------- f32 and its bytes

\* An f32 is its IEEE-754 bit pattern, written as four bytes, most
\* significant byte first (0.55f32 = 0x3F0CCCCD).
F32_0_55 == <<63, 12, 204, 205>>
F32_1_0 == <<63, 128, 0, 0>>
F32_0_0 == <<0, 0, 0, 0>>
\* A slip: the unit direction the code's comment names, (0.0, 1.0).
F32_0_7_unit == <<63, 128, 0, 0>>
F32_0_7 == <<63, 51, 51, 51>>
F32_3_0 == <<64, 64, 0, 0>>
F32_5_0 == <<64, 160, 0, 0>>
F32_40_0 == <<66, 32, 0, 0>>
F32_NEG_1 == <<191, 128, 0, 0>>
F32_NAN == <<127, 192, 0, 0>>

\* The arguments the caller passes to the setters: zero, a negative, a NaN.
SetterArgs == {F32_0_0, F32_NEG_1, F32_NAN}

\* The (width, height, samples) triples the caller passes to new: a
\* single-sampled and a multisampled scene.
NewInputs == {<<1, 1, 1>>, <<4, 2, 4>>}

\* The in-memory bytes of one f32 on a little-endian host.
to_ne_bytes(f) == <<f[4], f[3], f[2], f[1]>>

\* bytemuck::cast_slice(&[f32]) : the bytes of the slice, element by element.
RECURSIVE cast_slice(_)
cast_slice(fs) ==
    IF fs = <<>> THEN <<>> ELSE to_ne_bytes(Head(fs)) \o cast_slice(Tail(fs))

\* The f32 a shader reads from a uniform's bytes at a byte offset.
read_f32(bytes, offset) ==
    <<bytes[offset + 4], bytes[offset + 3], bytes[offset + 2], bytes[offset + 1]>>

\* The contents of a buffer after data is copied in at a byte offset.
copy_into(contents, offset, data) ==
    [i \in 1..Len(contents) |->
        IF i > offset /\ i <= offset + Len(data) THEN data[i - offset]
        ELSE contents[i]]

\* ------------------------------------------------------------ constructors

\* create_render_texture : the descriptor of a render texture.
create_render_texture(width, height, samples) ==
    [ size |-> <<width, height>>,
      usage |-> {"RENDER_ATTACHMENT", "TEXTURE_BINDING"},
      sample_count |-> samples,
      format |-> "Rgba16Float" ]

\* create_render_pipeline : the descriptor of a render pipeline.
create_render_pipeline(layout, shader, label, format) ==
    [ label |-> label,
      layout |-> layout,
      vertex |-> [module |-> shader, entry_point |-> "vs_main", buffers |-> <<>>],
      fragment |-> [module |-> shader, entry_point |-> "fs_main",
                    targets |-> <<[format |-> format, blend |-> "ALPHA_BLENDING",
                                   write_mask |-> "ALL"]>>],
      topology |-> "TriangleList",
      front_face |-> "Ccw",
      cull_mode |-> "None",
      polygon_mode |-> "Fill",
      depth_stencil |-> "None",
      multisample_count |-> 1 ]

\* The three kinds of layout entry the code declares.
TextureBinding(b) ==
    [ binding |-> b, visibility |-> "FRAGMENT", kind |-> "Texture",
      sample_type |-> "Float", view_dimension |-> "D2", multisampled |-> FALSE ]
SamplerBinding(b) ==
    [ binding |-> b, visibility |-> "FRAGMENT", kind |-> "Sampler",
      sample_type |-> "Filtering", view_dimension |-> "None", multisampled |-> FALSE ]
UniformBinding(b) ==
    [ binding |-> b, visibility |-> "FRAGMENT", kind |-> "Buffer",
      sample_type |-> "Uniform", view_dimension |-> "None", multisampled |-> FALSE ]

brightness_bind_group_layout ==
    <<TextureBinding(0), SamplerBinding(1), UniformBinding(2)>>

blur_bind_group_layout ==
    <<TextureBinding(0), SamplerBinding(1), UniformBinding(2),
      UniformBinding(3), UniformBinding(4)>>

composite_bind_group_layout ==
    <<TextureBinding(0), TextureBinding(1), SamplerBinding(2),
      UniformBinding(3), UniformBinding(4)>>

\* One entry of a bind group: a binding index and the resource bound there.
Entry(b, kind, handle) == [binding |-> b, kind |-> kind, resource |-> handle]

brightness_bind_group ==
    [ layout |-> "brightness_bind_group_layout",
      entries |-> << Entry(0, "TextureView", "scene_view"),
                     Entry(1, "Sampler", "sampler"),
                     Entry(2, "Buffer", "threshold_buffer") >> ]

blur_h_bind_group ==
    [ layout |-> "blur_bind_group_layout",
      entries |-> << Entry(0, "TextureView", "brightness_view"),
                     Entry(1, "Sampler", "sampler"),
                     Entry(2, "Buffer", "blur_h_buffer"),
                     Entry(3, "Buffer", "adaptive_scaling_buffer"),
                     Entry(4, "Buffer", "max_radius_buffer") >> ]

\* A copy-and-paste slip: the vertical blur samples its own target.
blur_v_bind_group_self ==
    [ layout |-> "blur_bind_group_layout",
      entries |-> << Entry(0, "TextureView", "blur_v_view"),
                     Entry(1, "Sampler", "sampler"),
                     Entry(2, "Buffer", "blur_v_buffer"),
                     Entry(3, "Buffer", "adaptive_scaling_buffer"),
                     Entry(4, "Buffer", "max_radius_buffer") >> ]

\* A copy-and-paste slip: the vertical blur binds another buffer as max radius.
blur_v_bind_group_other_radius ==
    [ layout |-> "blur_bind_group_layout",
      entries |-> << Entry(0, "TextureView", "blur_h_view"),
                     Entry(1, "Sampler", "sampler"),
                     Entry(2, "Buffer", "blur_v_buffer"),
                     Entry(3, "Buffer", "adaptive_scaling_buffer"),
                     Entry(4, "Buffer", "intensity_curve_buffer") >> ]

blur_v_bind_group ==
    [ layout |-> "blur_bind_group_layout",
      entries |-> << Entry(0, "TextureView", "blur_h_view"),
                     Entry(1, "Sampler", "sampler"),
                     Entry(2, "Buffer", "blur_v_buffer"),
                     Entry(3, "Buffer", "adaptive_scaling_buffer"),
                     Entry(4, "Buffer", "max_radius_buffer") >> ]

composite_bind_group ==
    [ layout |-> "composite_bind_group_layout",
      entries |-> << Entry(0, "TextureView", "scene_view"),
                     Entry(1, "TextureView", "blur_v_view"),
                     Entry(2, "Sampler", "sampler"),
                     Entry(3, "Buffer", "intensity_buffer"),
                     Entry(4, "Buffer", "intensity_curve_buffer") >> ]

\* ------------------------------------------------------------------- state

VARIABLES
    textures,        \* texture handle -> descriptor        (the five *_texture fields)
    views,           \* view handle -> texture handle       (the five *_view fields)
    bind_groups,     \* bind group handle -> descriptor     (the four *_bind_group fields)
    render_pipelines,\* pipeline handle -> descriptor       (the three *_pipeline fields)
    buffers,         \* buffer handle -> bytes held on the device
    params,          \* the five cached f32 fields of the struct
    live,            \* handles of the GPU objects that currently exist
    pending_writes,  \* queue.write_buffer calls staged for the next submit
    gpu_queue,       \* submitted work the device has not executed yet
    pc,              \* where the caller is: "idle" or the next step of process
    texture_view,    \* the output view argument of the current / last process call
    submissions,     \* the queue.submit calls of the current / last process call
    polls,           \* the device.poll calls of the current / last process call
    tex_state,       \* pipeline texture -> "fresh" (written by a submission of the
                     \* call in progress) | "old" (never written, or written by
                     \* an earlier call)
    tex_deps,        \* texture -> what its contents derive from: "scene_draw" and
                     \* "uniforms" of the call in progress, "previous" contents
    pass_reads,      \* what each pass of the current / last call sampled and read
    set_calls,       \* number of setter calls so far
    last_set,        \* per parameter, the argument of the last setter call
    last_call        \* the API call made last: name and argument

resources == <<textures, views, bind_groups, render_pipelines>>
device_state == <<buffers, gpu_queue, tex_state, tex_deps, pass_reads>>
call_state == <<pc, texture_view, submissions, polls>>
vars == <<textures, views, bind_groups, render_pipelines, buffers, params, live,
          pending_writes, gpu_queue, pc, texture_view, submissions, polls,
          tex_state, tex_deps, pass_reads, set_calls, last_set, last_call>>

\* The layout a bind group or pipeline names.
LayoutOf(name) ==
    CASE name = "brightness_bind_group_layout" -> brightness_bind_group_layout
      [] name = "blur_bind_group_layout" -> blur_bind_group_layout
      [] name = "composite_bind_group_layout" -> composite_bind_group_layout

\* The texture behind a view; the caller's own output view has its own texture.
TextureOf(view) ==
    IF view \in DOMAIN views THEN views[view] ELSE "output_texture"

\* The views a caller can hand to process as its output: a view of its own,
\* or any of the pipeline's pub view fields.
OutputViews ==
    {"output_view", "scene_view", "blur_v_view", "composite_view"}

\* The encoder labels of process, which name its five command buffers.
EncoderLabels ==
    {"Scene renderer", "Brightness extraction", "Horizontal blur",
     "Vertical blur", "Final composite"}

\* Every GPU object Nnpipe::new creates.
ObjectsCreatedInNew ==
    {"scene_texture", "brightness_texture", "blur_h_texture", "blur_v_texture",
     "composite_texture",
     "scene_view", "brightness_view", "blur_h_view", "blur_v_view", "composite_view",
     "sampler",
     "threshold_buffer", "blur_h_buffer", "blur_v_buffer", "intensity_buffer",
     "adaptive_scaling_buffer", "max_radius_buffer", "intensity_curve_buffer",
     "brightness_shader", "blur_shader", "composite_shader",
     "brightness_bind_group_layout", "blur_bind_group_layout",
     "composite_bind_group_layout",
     "brightness_bind_group", "blur_h_bind_group", "blur_v_bind_group",
     "composite_bind_group",
     "brightness_pipeline_layout", "blur_pipeline_layout", "composite_pipeline_layout",
     "brightness_pipeline", "blur_pipeline", "composite_pipeline"}

NotRun == [executed |-> FALSE, textures |-> <<>>, uniforms |-> <<>>]

\* Nnpipe::new : the state when the constructor returns.
Init ==
    \E input \in NewInputs :
      LET width == input[1]
          height == input[2]
          samples == input[3]
      IN
        /\ textures =
             [ scene_texture |-> create_render_texture(width, height, samples),
               brightness_texture |-> create_render_texture(width, height, 1),
               blur_h_texture |-> create_render_texture(width, height, 1),
               blur_v_texture |-> create_render_texture(width, height, 1),
               composite_texture |-> create_render_texture(width, height, 1) ]
        /\ views =
             [ scene_view |-> "scene_texture",
               brightness_view |-> "brightness_texture",
               blur_h_view |-> "blur_h_texture",
               blur_v_view |-> "blur_v_texture",
               composite_view |-> "composite_texture" ]
        /\ buffers =
             [ threshold_buffer |-> cast_slice(<<F32_0_55>>),
               blur_h_buffer |-> cast_slice(<<F32_1_0, F32_0_0>>),
               blur_v_buffer |-> cast_slice(<<F32_0_0, F32_0_7>>),
               intensity_buffer |-> cast_slice(<<F32_3_0>>),
               adaptive_scaling_buffer |-> cast_slice(<<F32_5_0>>),
               max_radius_buffer |-> cast_slice(<<F32_40_0>>),
               intensity_curve_buffer |-> cast_slice(<<F32_5_0>>) ]
        /\ bind_groups =
             [ brightness_bind_group |-> brightness_bind_group,
               blur_h_bind_group |-> blur_h_bind_group,
               blur_v_bind_group |-> blur_v_bind_group,
               composite_bind_group |-> composite_bind_group ]
        /\ render_pipelines =
             [ brightness_pipeline |->
                 create_render_pipeline("brightness_pipeline_layout",
                     "brightness_shader", "Brightness Pipeline", "Rgba16Float"),
               blur_pipeline |->
                 create_render_pipeline("blur_pipeline_layout",
                     "blur_shader", "Blur Pipeline", "Rgba16Float"),
               composite_pipeline |->
                 create_render_pipeline("composite_pipeline_layout",
                     "composite_shader", "Composite Pipeline", "Rgba16Float") ]
        /\ params =
             [ brightness_threshold |-> F32_0_55,
               bloom_intensity |-> F32_3_0,
               adaptive_blur_scaling |-> F32_5_0,
               max_blur_radius |-> F32_40_0,
               intensity_curve |-> F32_5_0 ]
        /\ live = ObjectsCreatedInNew
        /\ pending_writes = <<>>
        /\ gpu_queue = <<>>
        /\ pc = "idle"
        /\ texture_view = "none"
        /\ submissions = <<>>
        /\ polls = 0
        /\ tex_state =
             [ scene_texture |-> "old",
               brightness_texture |-> "old",
               blur_h_texture |-> "old",
               blur_v_texture |-> "old",
               composite_texture |-> "old" ]
        /\ tex_deps =
             [ scene_texture |-> {"previous"},
               brightness_texture |-> {"previous"},
               blur_h_texture |-> {"previous"},
               blur_v_texture |-> {"previous"},
               composite_texture |-> {"previous"},
               output_texture |-> {"previous"} ]
        /\ pass_reads = [l \in EncoderLabels |-> NotRun]
        /\ set_calls = 0
        /\ last_set = params
        /\ last_call = [fn |-> "new", arg |-> <<>>]

\* ------------------------------------------------------------ queue and GPU

\* queue.write_buffer(buffer, offset, data) : a staged write; it is applied at
\* the start of the next queue.submit, ahead of that submission's commands.
write_buffer(buffer, offset, data) ==
    [buffer |-> buffer, offset |-> offset, data |-> data]

\* A slip: LoadOp::Load, so the pass blends over what the target held.
render_pass_load(label, view, pipeline, bind_group) ==
    [ label |-> label, view |-> view, load |-> "Load", store |-> TRUE,
      pipeline |-> pipeline, bind_group |-> bind_group,
      vertices |-> 3, instances |-> 1 ]

\* encoder.begin_render_pass .. drop(pass) : one recorded post-processing pass.
render_pass(label, view, pipeline, bind_group) ==
    [ label |-> label, view |-> view, load |-> "Clear(BLACK)", store |-> TRUE,
      pipeline |-> pipeline, bind_group |-> bind_group,
      vertices |-> 3, instances |-> 1 ]

\* draw_renderer.encode_render_pass : the caller's scene draw into scene_view.
encode_render_pass(view) ==
    [ label |-> "nannou draw", view |-> view, load |-> "draw", store |-> TRUE,
      pipeline |-> "draw_renderer", bind_group |-> "none",
      vertices |-> 0, instances |-> 0 ]

\* encoder.finish() : the command buffer of an encoder that recorded one pass.
finish(encoder_label, pass) ==
    [kind |-> "commands", label |-> encoder_label, pass |-> pass]

\* queue.submit(command_buffers) : the device queue afterwards; the staged
\* writes go first, as one batch, then the command buffers, behind everything
\* queued before.
submit(queue, staged, command_buffers) ==
    queue \o (IF staged = <<>> THEN <<>>
              ELSE <<[kind |-> "writes", writes |-> staged]>>)
          \o command_buffers

\* The buffers after a batch of staged writes is applied in order.
RECURSIVE apply_writes(_, _)
apply_writes(bufs, writes) ==
    IF writes = <<>> THEN bufs
    ELSE LET w == Head(writes)
         IN apply_writes([bufs EXCEPT ![w.buffer] = copy_into(@, w.offset, w.data)],
                         Tail(writes))

\* The entries of one kind in a bind group, in binding order.
EntriesOf(group, kind) ==
    SelectSeq(bind_groups[group].entries, LAMBDA e : e.kind = kind)

\* What a pass samples and reads when the device executes it.
ReadsOf(pass) ==
    IF pass.bind_group = "none"
    THEN [executed |-> TRUE, textures |-> <<>>, uniforms |-> <<>>]
    ELSE LET tv == EntriesOf(pass.bind_group, "TextureView")
             ub == EntriesOf(pass.bind_group, "Buffer")
         IN [ executed |-> TRUE,
              textures |-> [i \in 1..Len(tv) |->
                              [ view |-> tv[i].resource,
                                state |-> tex_state[TextureOf(tv[i].resource)] ]],
              uniforms |-> [i \in 1..Len(ub) |->
                              [ buffer |-> ub[i].resource,
                                contents |-> buffers[ub[i].resource] ]] ]

\* What the contents of a pass's target derive from once the pass has run:
\* what the pass sampled and read, and, unless the pass clears its target
\* first, what the target held before.  The contents of scene_view after the
\* caller's draw are that call's scene draw.
DepsWritten(pass) ==
    IF pass.bind_group = "none" THEN {"scene_draw"}
    ELSE LET tv == EntriesOf(pass.bind_group, "TextureView")
             ub == EntriesOf(pass.bind_group, "Buffer")
         IN UNION {tex_deps[TextureOf(tv[i].resource)] : i \in 1..Len(tv)}
            \cup (IF ub = <<>> THEN {} ELSE {"uniforms"})
            \cup (IF pass.load = "Clear(BLACK)" THEN {}
                  ELSE tex_deps[TextureOf(pass.view)])

\* The device executes the item at the head of its queue.
gpu_execute ==
    /\ gpu_queue # <<>>
    /\ LET item == Head(gpu_queue) IN
        /\ gpu_queue' = Tail(gpu_queue)
        /\ IF item.kind = "writes"
           THEN /\ buffers' = apply_writes(buffers, item.writes)
                /\ UNCHANGED <<tex_state, tex_deps, pass_reads>>
           ELSE /\ pass_reads' = [pass_reads EXCEPT ![item.label] = ReadsOf(item.pass)]
                /\ tex_state' = [t \in DOMAIN tex_state |->
                                   IF t = TextureOf(item.pass.view) THEN "fresh"
                                   ELSE tex_state[t]]
                /\ tex_deps' = [tex_deps EXCEPT
                                  ![TextureOf(item.pass.view)] = DepsWritten(item.pass)]
                /\ UNCHANGED buffers
    /\ UNCHANGED <<resources, params, live, pending_writes, call_state,
                   set_calls, last_set, last_call>>

\* ------------------------------------------------------------------ process

\* One record-and-submit step of process: an encoder is created, records one
\* pass, is finished and submitted on its own; the caller moves on to next.
SubmitStep(encoder_label, pass, next) ==
    /\ gpu_queue' = submit(gpu_queue, pending_writes, <<finish(encoder_label, pass)>>)
    /\ pending_writes' = <<>>
    /\ live' = live \cup {encoder_label}
    /\ pc' = next
    /\ UNCHANGED <<resources, buffers, params, polls, set_calls, last_set>>

\* process, entry and scene draw: the output view argument is bound, the scene
\* is recorded into scene_view and submitted.
process_scene(output) ==
    /\ pc = "idle"
    /\ texture_view' = output
    /\ submissions' = << <<finish("Scene renderer", encode_render_pass("scene_view"))>> >>
    /\ polls' = 0
    /\ tex_state' = [t \in DOMAIN tex_state |-> "old"]
    /\ tex_deps' = [t \in DOMAIN tex_deps |-> {"previous"}]
    /\ pass_reads' = [l \in EncoderLabels |-> NotRun]
    /\ last_call' = [fn |-> "process", arg |-> output]
    /\ gpu_queue' = submit(gpu_queue, pending_writes,
                           <<finish("Scene renderer", encode_render_pass("scene_view"))>>)
    /\ pending_writes' = <<>>
    /\ live' = live \cup {"Scene renderer"}
    /\ pc' = "brightness"
    /\ UNCHANGED <<resources, buffers, params, set_calls, last_set>>

\* 1. Brightness extraction pass.
process_brightness ==
    /\ pc = "brightness"
    /\ LET pass == render_pass("Brightness pass", "brightness_view",
                               "brightness_pipeline", "brightness_bind_group")
       IN /\ SubmitStep("Brightness extraction", pass, "blur_h")
          /\ submissions' = Append(submissions, <<finish("Brightness extraction", pass)>>)
    /\ UNCHANGED <<texture_view, tex_state, tex_deps, pass_reads, last_call>>

\* A slip: the horizontal blur is recorded but its encoder is never submitted.
process_blur_h_unsubmitted ==
    /\ pc = "blur_h"
    /\ pc' = "blur_v"
    /\ UNCHANGED <<resources, device_state, params, live, pending_writes,
                   texture_view, submissions, polls, set_calls, last_set, last_call>>

\* 2. Horizontal blur pass.
process_blur_h ==
    /\ pc = "blur_h"
    /\ LET pass == render_pass("Horizontal blur pass", "blur_h_view",
                               "blur_pipeline", "blur_h_bind_group")
       IN /\ SubmitStep("Horizontal blur", pass, "blur_v")
          /\ submissions' = Append(submissions, <<finish("Horizontal blur", pass)>>)
    /\ UNCHANGED <<texture_view, tex_state, tex_deps, pass_reads, last_call>>

\* 3. Vertical blur pass.
process_blur_v ==
    /\ pc = "blur_v"
    /\ LET pass == render_pass("Vertical blur pass", "blur_v_view",
                               "blur_pipeline", "blur_v_bind_group")
       IN /\ SubmitStep("Vertical blur", pass, "composite")
          /\ submissions' = Append(submissions, <<finish("Vertical blur", pass)>>)
    /\ UNCHANGED <<texture_view, tex_state, tex_deps, pass_reads, last_call>>

\* A slip: the composite is rendered into the pipeline's own composite_view.
process_composite_own_view ==
    /\ pc = "composite"
    /\ LET pass == render_pass("Composite pass", "composite_view",
                               "composite_pipeline", "composite_bind_group")
       IN /\ SubmitStep("Final composite", pass, "poll")
          /\ submissions' = Append(submissions, <<finish("Final composite", pass)>>)
    /\ UNCHANGED <<texture_view, tex_state, tex_deps, pass_reads, last_call>>

\* 4. Final composite pass, rendered directly to the output view.
process_composite ==
    /\ pc = "composite"
    /\ LET pass == render_pass("Composite pass", texture_view,
                               "composite_pipeline", "composite_bind_group")
       IN /\ SubmitStep("Final composite", pass, "poll")
          /\ submissions' = Append(submissions, <<finish("Final composite", pass)>>)
    /\ UNCHANGED <<texture_view, tex_state, tex_deps, pass_reads, last_call>>

\* A slip: device.poll(Maintain::Poll), which returns without waiting.
process_poll_nowait ==
    /\ pc = "poll"
    /\ polls' = polls + 1
    /\ live' = live \ EncoderLabels
    /\ pc' = "idle"
    /\ tex_state' = [t \in DOMAIN tex_state |-> "old"]
    /\ UNCHANGED <<resources, buffers, gpu_queue, tex_deps, pass_reads, params,
                   pending_writes, texture_view, submissions, set_calls,
                   last_set, last_call>>

\* device.poll(Maintain::Wait) : blocks until the device has drained its
\* queue, releases the finished command buffers, and process returns.
process_poll ==
    /\ pc = "poll"
    /\ gpu_queue = <<>>
    /\ polls' = polls + 1
    /\ live' = live \ EncoderLabels
    /\ pc' = "idle"
    /\ tex_state' = [t \in DOMAIN tex_state |-> "old"]
    /\ UNCHANGED <<resources, buffers, gpu_queue, tex_deps, pass_reads, params, pending_writes,
                   texture_view, submissions, set_calls, last_set, last_call>>

\* ------------------------------------------------------------------ setters

\* The setters as they would be if they borrowed the pipeline shared (&self):
\* callable while a process call is under way.
SetterCall_shared(fn, field, value) ==
    /\ set_calls < MaxSetterCalls
    /\ set_calls' = set_calls + 1
    /\ last_set' = [last_set EXCEPT ![field] = value]
    /\ last_call' = [fn |-> fn, arg |-> value]
    /\ UNCHANGED <<textures, views, render_pipelines, device_state, call_state>>

\* What every setter call has in common: it runs between process calls (the
\* setters take &mut self), and leaves everything but the parameter alone.
SetterCall(fn, field, value) ==
    /\ pc = "idle"
    /\ set_calls < MaxSetterCalls
    /\ set_calls' = set_calls + 1
    /\ last_set' = [last_set EXCEPT ![field] = value]
    /\ last_call' = [fn |-> fn, arg |-> value]
    /\ UNCHANGED <<textures, views, render_pipelines, device_state, call_state>>

\* self.<field> = value; queue.write_buffer(&self.<buffer>, 0, cast_slice(&[value]))
SetParam(field, buffer, value) ==
    /\ params' = [params EXCEPT ![field] = value]
    /\ pending_writes' =
         Append(pending_writes, write_buffer(buffer, 0, cast_slice(<<value>>)))
    /\ UNCHANGED <<bind_groups, live>>

\* A slip: the threshold is written into the horizontal direction buffer.
set_brightness_threshold_into_direction(threshold) ==
    /\ SetterCall("set_brightness_threshold", "brightness_threshold", threshold)
    /\ SetParam("brightness_threshold", "blur_h_buffer", threshold)

set_brightness_threshold(threshold) ==
    /\ SetterCall("set_brightness_threshold", "brightness_threshold", threshold)
    /\ SetParam("brightness_threshold", "threshold_buffer", threshold)

\* A slip: the cached field is updated but the write is never queued.
set_bloom_intensity_unwritten(intensity) ==
    /\ SetterCall("set_bloom_intensity", "bloom_intensity", intensity)
    /\ params' = [params EXCEPT !.bloom_intensity = intensity]
    /\ UNCHANGED <<pending_writes, bind_groups, live>>

set_bloom_intensity(intensity) ==
    /\ SetterCall("set_bloom_intensity", "bloom_intensity", intensity)
    /\ SetParam("bloom_intensity", "intensity_buffer", intensity)

\* A slip: the write carries the field's value from before the assignment.
set_adaptive_blur_scaling_stale(scaling) ==
    /\ SetterCall("set_adaptive_blur_scaling", "adaptive_blur_scaling", scaling)
    /\ params' = [params EXCEPT !.adaptive_blur_scaling = scaling]
    /\ pending_writes' =
         Append(pending_writes,
                write_buffer("adaptive_scaling_buffer", 0,
                             cast_slice(<<params.adaptive_blur_scaling>>)))
    /\ UNCHANGED <<bind_groups, live>>

set_adaptive_blur_scaling(scaling) ==
    /\ SetterCall("set_adaptive_blur_scaling", "adaptive_blur_scaling", scaling)
    /\ SetParam("adaptive_blur_scaling", "adaptive_scaling_buffer", scaling)

\* A slip: the radius is clamped to be non-negative before it is stored
\* (a negative f32 has its sign bit set: first byte >= 128).
set_max_blur_radius_clamped(radius) ==
    /\ SetterCall("set_max_blur_radius", "max_blur_radius", radius)
    /\ SetParam("max_blur_radius", "max_radius_buffer",
                IF radius[1] >= 128 THEN F32_0_0 ELSE radius)

set_max_blur_radius(radius) ==
    /\ SetterCall("set_max_blur_radius", "max_blur_radius", radius)
    /\ SetParam("max_blur_radius", "max_radius_buffer", radius)

\* A slip: the setter replaces the uniform buffer by a new one holding the
\* value and rebuilds the composite bind group around it.
set_intensity_curve_recreate(curve) ==
    /\ SetterCall("set_intensity_curve", "intensity_curve", curve)
    /\ params' = [params EXCEPT !.intensity_curve = curve]
    /\ pending_writes' =
         Append(pending_writes,
                write_buffer("intensity_curve_buffer", 0, cast_slice(<<curve>>)))
    /\ live' = live \cup {"intensity_curve_buffer_2"}
    /\ bind_groups' =
         [bind_groups EXCEPT !.composite_bind_group.entries[5].resource =
                                 "intensity_curve_buffer_2"]

set_intensity_curve(curve) ==
    /\ SetterCall("set_intensity_curve", "intensity_curve", curve)
    /\ SetParam("intensity_curve", "intensity_curve_buffer", curve)

\* --------------------------------------------------------------- behaviours

Next ==
    \/ \E output \in OutputViews : process_scene(output)
    \/ process_brightness
    \/ process_blur_h
    \/ process_blur_v
    \/ process_composite
    \/ process_poll
    \/ gpu_execute
    \/ \E threshold \in SetterArgs : set_brightness_threshold(threshold)
    \/ \E intensity \in SetterArgs : set_bloom_intensity(intensity)
    \/ \E scaling \in SetterArgs : set_adaptive_blur_scaling(scaling)
    \/ \E radius \in SetterArgs : set_max_blur_radius(radius)
    \/ \E curve \in SetterArgs : set_intensity_curve(curve)

Spec == Init /\ [][Next]_vars

\* ------------------------------------------------------------------- claims

\* The encoder label and render target of each submission of a process call
\* whose output view is output, in program order.
SubmissionOrder(output) ==
    << <<"Scene renderer", "scene_view">>,
       <<"Brightness extraction", "brightness_view">>,
       <<"Horizontal blur", "blur_h_view">>,
       <<"Vertical blur", "blur_v_view">>,
       <<"Final composite", output>> >>

\* A process call has been made and has returned.
Returned == pc = "idle" /\ submissions # <<>>

\* C1: every process call makes exactly five submissions, each of one command
\* buffer, in the order scene, brightness, horizontal blur, vertical blur,
\* composite (into the output view); the device is polled once, after the
\* fifth, and not before.
C1_FiveSubmissionsInOrder ==
    /\ Len(submissions) <= 5
    /\ \A i \in 1..Len(submissions) :
          /\ Len(submissions[i]) = 1
          /\ <<submissions[i][1].label, submissions[i][1].pass.view>>
                = SubmissionOrder(texture_view)[i]
    /\ pc \in {"poll", "idle"} /\ submissions # <<>> => Len(submissions) = 5
    /\ pc # "idle" => polls = 0
    /\ Returned => polls = 1

\* C1 witness: a process call has returned after five submissions and one poll.
C1_Witness ==
    Returned /\ Len(submissions) = 5 /\ polls = 1

\* The views each pass samples, by encoder label.
SampledViews(label) ==
    CASE label = "Scene renderer" -> <<>>
      [] label = "Brightness extraction" -> <<"scene_view">>
      [] label = "Horizontal blur" -> <<"brightness_view">>
      [] label = "Vertical blur" -> <<"blur_h_view">>
      [] label = "Final composite" -> <<"scene_view", "blur_v_view">>

\* C2: every texture a pass samples was written by an earlier submission of
\* the same process call: brightness samples scene, the horizontal blur
\* samples brightness, the vertical blur samples blur_h, the composite samples
\* scene and blur_v, and none of them reads an older or unwritten texture.
C2_PassesSampleThisCallsTextures ==
    \A l \in EncoderLabels :
        pass_reads[l].executed =>
            /\ [i \in 1..Len(pass_reads[l].textures) |-> pass_reads[l].textures[i].view]
                  = SampledViews(l)
            /\ \A i \in 1..Len(pass_reads[l].textures) :
                  pass_reads[l].textures[i].state = "fresh"

\* C2 witness: the composite pass of a call has executed and sampled two textures.
C2_Witness ==
    /\ pass_reads["Final composite"].executed
    /\ Len(pass_reads["Final composite"].textures) = 2
    /\ pass_reads["Vertical blur"].executed

\* C3: when process has returned, none of its command buffers is still queued
\* on the device: all five have executed.
C3_ReturnsAfterWorkCompleted ==
    Returned =>
        /\ gpu_queue = <<>>
        /\ \A l \in EncoderLabels : pass_reads[l].executed

\* C3 witness: process has returned and its composite pass has run.
C3_Witness ==
    Returned /\ polls = 1 /\ pass_reads["Final composite"].executed

\* The uniform buffer behind each parameter field, as the setters pair them.
ParamBuffer ==
    [ brightness_threshold |-> "threshold_buffer",
      bloom_intensity |-> "intensity_buffer",
      adaptive_blur_scaling |-> "adaptive_scaling_buffer",
      max_blur_radius |-> "max_radius_buffer",
      intensity_curve |-> "intensity_curve_buffer" ]

\* Every write that is queued or staged and not yet applied, oldest first.
RECURSIVE QueuedWrites(_)
QueuedWrites(queue) ==
    IF queue = <<>> THEN <<>>
    ELSE (IF Head(queue).kind = "writes" THEN Head(queue).writes ELSE <<>>)
         \o QueuedWrites(Tail(queue))

\* The contents of the buffers once every queued and staged write is applied.
BuffersOnceApplied ==
    apply_writes(buffers, QueuedWrites(gpu_queue) \o pending_writes)

\* C4: for each of the five parameters, the cached field and the f32 the
\* uniform buffer holds at offset 0 once the queued writes are applied are
\* both the argument of the last setter call (the default if there was none),
\* unmodified, whatever the value: negative and NaN included.
C4_SettersStoreArgumentUnmodified ==
    \A f \in DOMAIN ParamBuffer :
        /\ params[f] = last_set[f]
        /\ Len(BuffersOnceApplied[ParamBuffer[f]]) = 4
        /\ read_f32(BuffersOnceApplied[ParamBuffer[f]], 0) = last_set[f]

\* C4 witness: a negative radius and a NaN threshold have been set.
C4_Witness ==
    /\ last_set.max_blur_radius = F32_NEG_1
    /\ params.max_blur_radius = F32_NEG_1
    /\ last_set.brightness_threshold = F32_NAN
    /\ pending_writes # <<>>

\* C5: a setter call that repeats the call made just before it, with the same
\* argument, changes neither the cached fields nor the buffer contents (held
\* now, and once the queued writes are applied).
C5_SettersIdempotent ==
    [][ (pc = "idle" /\ pc' = "idle" /\ set_calls' = set_calls + 1
            /\ last_call' = last_call)
        => /\ params' = params
           /\ buffers' = buffers
           /\ BuffersOnceApplied' = BuffersOnceApplied ]_vars

\* C5 witness: the same setter has been called twice in a row with one argument.
C5_Witness ==
    /\ Len(pending_writes) >= 2
    /\ pending_writes[Len(pending_writes)] = pending_writes[Len(pending_writes) - 1]
    /\ last_call.fn = "set_adaptive_blur_scaling"
    /\ last_call.arg = F32_NAN

\* C6: after any sequence of setter and process calls every bind group holds
\* the layout and the view, sampler and buffer handles it was created with,
\* and the views and buffers are the ones created by new: only buffer
\* contents change.
C6_BindGroupsStable ==
    /\ bind_groups = [ brightness_bind_group |-> brightness_bind_group,
                       blur_h_bind_group |-> blur_h_bind_group,
                       blur_v_bind_group |-> blur_v_bind_group,
                       composite_bind_group |-> composite_bind_group ]
    /\ views = [ scene_view |-> "scene_texture",
                 brightness_view |-> "brightness_texture",
                 blur_h_view |-> "blur_h_texture",
                 blur_v_view |-> "blur_v_texture",
                 composite_view |-> "composite_texture" ]
    /\ DOMAIN buffers = {"threshold_buffer", "blur_h_buffer", "blur_v_buffer",
                         "intensity_buffer", "adaptive_scaling_buffer",
                         "max_radius_buffer", "intensity_curve_buffer"}
    /\ \A g \in DOMAIN bind_groups :
          \A i \in 1..Len(bind_groups[g].entries) :
              bind_groups[g].entries[i].resource \in live

\* C6 witness: setters and a process call have run and a buffer's contents
\* have changed.
C6_Witness ==
    /\ Returned
    /\ set_calls = MaxSetterCalls
    /\ buffers.intensity_curve_buffer # cast_slice(<<F32_5_0>>)

\* C7: each pass of a process call reads, from every parameter buffer it
\* binds, the argument of the last setter call made before the call (the
\* default if none): an update made between frames is seen by the next frame.
C7_UpdateSeenByNextFrame ==
    (pc # "idle" \/ last_call.fn = "process") =>
        \A l \in EncoderLabels :
            \A i \in 1..Len(pass_reads[l].uniforms) :
                \A f \in DOMAIN ParamBuffer :
                    ParamBuffer[f] = pass_reads[l].uniforms[i].buffer =>
                        read_f32(pass_reads[l].uniforms[i].contents, 0) = last_set[f]

\* C7 witness: after set_bloom_intensity(0.0) the composite pass of the next
\* call has run and read intensity 0.
C7_Witness ==
    /\ pc # "idle"
    /\ last_set.bloom_intensity = F32_0_0
    /\ pass_reads["Final composite"].executed
    /\ \E i \in 1..Len(pass_reads["Final composite"].uniforms) :
          /\ pass_reads["Final composite"].uniforms[i].buffer = "intensity_buffer"
          /\ read_f32(pass_reads["Final composite"].uniforms[i].contents, 0) = F32_0_0

\* An entry of a bind group supplies what the layout entry at its index
\* declares: the same binding index and kind of resource, and for a texture
\* a 2D float texture usable for sampling whose sample count agrees with the
\* layout's multisampled flag.
BindingSatisfied(entry, declared) ==
    /\ entry.binding = declared.binding
    /\ CASE declared.kind = "Texture" ->
              /\ entry.kind = "TextureView"
              /\ entry.resource \in DOMAIN views
              /\ LET texture == textures[views[entry.resource]]
                 IN /\ texture.format = "Rgba16Float"
                    /\ declared.sample_type = "Float"
                    /\ declared.view_dimension = "D2"
                    /\ "TEXTURE_BINDING" \in texture.usage
                    /\ (texture.sample_count > 1) = declared.multisampled
         [] declared.kind = "Sampler" ->
              entry.kind = "Sampler" /\ declared.sample_type = "Filtering"
         [] declared.kind = "Buffer" ->
              /\ entry.kind = "Buffer"
              /\ entry.resource \in DOMAIN buffers
              /\ declared.sample_type = "Uniform"

\* The pipeline's own views each render pipeline renders into.
OwnTargets(pipeline) ==
    CASE pipeline = "brightness_pipeline" -> {"brightness_view"}
      [] pipeline = "blur_pipeline" -> {"blur_h_view", "blur_v_view"}
      [] pipeline = "composite_pipeline" -> {}

\* C8: whatever width, height and samples new was given, every entry of every
\* bind group supplies a resource of the kind its layout declares at that
\* index (for a texture, with a sample count that agrees with
\* multisampled = false), and each render pipeline's multisample count of 1
\* is the sample count of the views it renders into.
C8_EveryBindingSatisfied ==
    /\ \A g \in DOMAIN bind_groups :
          LET declared == LayoutOf(bind_groups[g].layout)
              entries == bind_groups[g].entries
          IN /\ Len(entries) = Len(declared)
             /\ \A i \in 1..Len(entries) : BindingSatisfied(entries[i], declared[i])
    /\ \A p \in DOMAIN render_pipelines :
          /\ render_pipelines[p].multisample_count = 1
          /\ \A v \in OwnTargets(p) :
                textures[views[v]].sample_count = render_pipelines[p].multisample_count

\* C9 as stated: every GPU object in use was created in new; process and the
\* setters create none.
C9_NoObjectCreatedAfterNew ==
    live \subseteq ObjectsCreatedInNew

\* C9 amended: the textures, views, sampler, buffers, shader modules, layouts,
\* bind groups and pipelines are those created in new, in every state; what
\* process adds are the command buffers of the call in progress, at most one
\* per submission made, and none is left when process has returned.
C9_ObjectsOfNewPlusCommandBuffers ==
    /\ live \ EncoderLabels = ObjectsCreatedInNew
    /\ live \cap EncoderLabels
          \subseteq {submissions[i][1].label : i \in 1..Len(submissions)}
    /\ pc = "idle" => live = ObjectsCreatedInNew

\* C9 witness: setters have run, a process call has returned, and the live
\* objects are those of new.
C9_Witness ==
    /\ Returned
    /\ set_calls = MaxSetterCalls
    /\ last_call.fn = "set_intensity_curve"
    /\ live = ObjectsCreatedInNew

\* The render targets of the command buffers submitted by the current / last call.
SubmittedTargets ==
    {submissions[i][1].pass.view : i \in 1..Len(submissions)}

\* The views bound as inputs by some bind group.
BoundViews ==
    UNION { {bind_groups[g].entries[i].resource :
                i \in {k \in 1..Len(bind_groups[g].entries) :
                          bind_groups[g].entries[k].kind = "TextureView"}} :
            g \in DOMAIN bind_groups }

\* C10 as stated: the composite pass writes to the output view only, and
\* composite_view is never a render target and never an input of any pass.
C10_CompositeViewNeverUsed ==
    /\ "composite_view" \notin SubmittedTargets
    /\ "composite_view" \notin BoundViews
    /\ tex_state.composite_texture = "old"

\* C10 amended: the composite pass renders into the output view it was given
\* and nothing else; composite_view is never bound as an input, and it is a
\* render target only of the composite pass of a call whose output view is
\* composite_view itself.
C10_CompositeWritesOutputOnly ==
    /\ \A i \in 1..Len(submissions) :
          /\ submissions[i][1].label = "Final composite"
                => submissions[i][1].pass.view = texture_view
          /\ submissions[i][1].pass.view = "composite_view"
                => /\ submissions[i][1].label = "Final composite"
                   /\ texture_view = "composite_view"
    /\ "composite_view" \notin BoundViews
    /\ tex_state.composite_texture = "fresh" => texture_view = "composite_view"

\* C10 witness: the composite pass has run into the caller's own output view
\* and composite_texture was left alone.
C10_Witness ==
    /\ pc = "poll"
    /\ texture_view = "output_view"
    /\ pass_reads["Final composite"].executed
    /\ tex_state.composite_texture = "old"

\* The textures the four post-processing passes of a call render into.
PassTargets ==
    {TextureOf(submissions[i][1].pass.view) :
        i \in {k \in 1..Len(submissions) :
                  /\ submissions[k][1].label # "Scene renderer"
                  /\ pass_reads[submissions[k][1].label].executed}}

\* C11: passes are stateless between process calls: no step of process changes
\* a cached parameter or the value a uniform buffer holds once its queued
\* writes are applied; every post-processing pass clears its target to black
\* and draws 3 vertices, 1 instance; and the contents of every texture such a
\* pass has rendered in a call derive from that call's scene draw and uniform
\* values only, never from what a texture held before the call.
C11_PassesStateless ==
    /\ [](/\ \A i \in 2..Len(submissions) :
                /\ submissions[i][1].pass.load = "Clear(BLACK)"
                /\ submissions[i][1].pass.vertices = 3
                /\ submissions[i][1].pass.instances = 1
          /\ \A t \in PassTargets :
                /\ "previous" \notin tex_deps[t]
                /\ tex_deps[t] = {"scene_draw", "uniforms"})
    /\ [][ (pc # "idle" \/ pc' # "idle")
              => /\ params' = params
                 /\ BuffersOnceApplied' = BuffersOnceApplied ]_vars

\* C11 witness: a second process call in a row has returned, and brightness,
\* blur_h, blur_v and the caller's output derive from its inputs alone.
C11_Witness ==
    /\ Returned
    /\ texture_view = "output_view"
    /\ set_calls > 0
    /\ \A t \in {"brightness_texture", "blur_h_texture", "blur_v_texture",
                 "output_texture"} : tex_deps[t] = {"scene_draw", "uniforms"}

SubmittedPass(label) ==
    LET i == CHOOSE k \in 1..Len(submissions) : submissions[k][1].label = label
    IN submissions[i][1].pass

\* The bytes a pass read from a buffer, as a set (empty if it read none).
ReadFrom(label, buffer) ==
    {pass_reads[label].uniforms[i].contents :
        i \in {k \in 1..Len(pass_reads[label].uniforms) :
                  pass_reads[label].uniforms[k].buffer = buffer}}

\* C13: the two blur passes use the same render pipeline and bind group
\* layout; their bind groups differ only in the source texture (brightness
\* vs blur_h) and the direction buffer (blur_h_dir vs blur_v_dir), and the
\* passes in their render target; both bind the one adaptive_scaling buffer
\* and the one max_radius buffer, and in every frame both passes read the
\* same adaptive_scaling and max_radius values.
C13_BlurPassesShareScalingAndRadius ==
    LET h == bind_groups.blur_h_bind_group
        v == bind_groups.blur_v_bind_group
    IN /\ h.layout = v.layout
       /\ Len(h.entries) = Len(v.entries)
       /\ {i \in 1..Len(h.entries) : h.entries[i] # v.entries[i]} = {1, 3}
       /\ h.entries[1].resource = "brightness_view"
       /\ v.entries[1].resource = "blur_h_view"
       /\ h.entries[3].resource = "blur_h_buffer"
       /\ v.entries[3].resource = "blur_v_buffer"
       /\ h.entries[4].resource = "adaptive_scaling_buffer"
       /\ h.entries[5].resource = "max_radius_buffer"
       /\ Len(submissions) >= 4 =>
             /\ SubmittedPass("Horizontal blur").pipeline
                   = SubmittedPass("Vertical blur").pipeline
             /\ SubmittedPass("Horizontal blur").bind_group = "blur_h_bind_group"
             /\ SubmittedPass("Vertical blur").bind_group = "blur_v_bind_group"
             /\ SubmittedPass("Horizontal blur").view = "blur_h_view"
             /\ SubmittedPass("Vertical blur").view = "blur_v_view"
       /\ (pass_reads["Horizontal blur"].executed
             /\ pass_reads["Vertical blur"].executed) =>
             \A b \in {"adaptive_scaling_buffer", "max_radius_buffer"} :
                 /\ Cardinality(ReadFrom("Horizontal blur", b)) = 1
                 /\ ReadFrom("Horizontal blur", b) = ReadFrom("Vertical blur", b)

\* C13 witness: both blur passes of a call have run after the scaling and the
\* radius were set, and read a NaN scaling.
C13_Witness ==
    /\ pass_reads["Horizontal blur"].executed
    /\ pass_reads["Vertical blur"].executed
    /\ last_set.adaptive_blur_scaling = F32_NAN
    /\ last_set.max_blur_radius = F32_NEG_1
    /\ ReadFrom("Vertical blur", "adaptive_scaling_buffer") = {cast_slice(<<F32_NAN>>)}

\* The textures a submitted pass samples through its bind group.
TexturesSampled(pass) ==
    IF pass.bind_group = "none" THEN {}
    ELSE LET tv == EntriesOf(pass.bind_group, "TextureView")
         IN {TextureOf(tv[i].resource) : i \in 1..Len(tv)}

\* C14 as stated: in no pass of any process call is the render target one of
\* the textures the pass samples, whatever output view the caller supplied.
C14_NoPassSamplesItsTarget ==
    \A i \in 1..Len(submissions) :
        TextureOf(submissions[i][1].pass.view)
            \notin TexturesSampled(submissions[i][1].pass)

\* The parameter each setter is for.
SetterField ==
    [ set_brightness_threshold |-> "brightness_threshold",
      set_bloom_intensity |-> "bloom_intensity",
      set_adaptive_blur_scaling |-> "adaptive_blur_scaling",
      set_max_blur_radius |-> "max_blur_radius",
      set_intensity_curve |-> "intensity_curve" ]

\* No queued or staged write targets a direction buffer, and both hold the
\* directions given in new: (1.0, 0.0) and (0.0, 0.7), little-endian.
DirectionsIntact ==
    /\ \A i \in 1..Len(QueuedWrites(gpu_queue) \o pending_writes) :
          (QueuedWrites(gpu_queue) \o pending_writes)[i].buffer
              \notin {"blur_h_buffer", "blur_v_buffer"}
    /\ buffers.blur_h_buffer = <<0, 0, 128, 63, 0, 0, 0, 0>>
    /\ buffers.blur_v_buffer = <<0, 0, 0, 0, 51, 51, 51, 63>>
    /\ BuffersOnceApplied.blur_h_buffer = buffers.blur_h_buffer
    /\ BuffersOnceApplied.blur_v_buffer = buffers.blur_v_buffer

ParamsRead(label) ==
    LET u == pass_reads[label].uniforms
    IN UNION { {<<f, read_f32(u[i].contents, 0)>> :
                   i \in {k \in 1..Len(u) : u[k].buffer = ParamBuffer[f]}} :
               f \in DOMAIN ParamBuffer }

\* C16: all passes of one frame see one parameter snapshot: while a process
\* call is under way no setter runs, so no parameter changes and no buffer
\* write is staged or queued behind a command buffer of the call, and every
\* parameter value a pass of the call reads is the one that was current when
\* process was called.
C16_OneSnapshotPerFrame ==
    /\ [](pc # "idle" =>
            /\ pending_writes = <<>>
            /\ \A i, j \in 1..Len(gpu_queue) :
                  (i < j /\ gpu_queue[i].kind = "commands")
                      => gpu_queue[j].kind = "commands"
            /\ \A l \in EncoderLabels \ {"Scene renderer"} :
                  pass_reads[l].executed =>
                      \A r \in ParamsRead(l) : r[2] = params[r[1]])
    /\ [][ pc # "idle" => (params' = params /\ set_calls' = set_calls
                             /\ last_set' = last_set) ]_vars

\* C16 witness: in one call, after two setter calls, the brightness pass has
\* read the NaN threshold and the composite pass the negative intensity, and
\* the call has not returned yet.
C16_Witness ==
    /\ pc # "idle"
    /\ set_calls = 2
    /\ <<"brightness_threshold", F32_NAN>> \in ParamsRead("Brightness extraction")
    /\ <<"bloom_intensity", F32_NEG_1>> \in ParamsRead("Final composite")
    /\ <<"intensity_curve", F32_5_0>> \in ParamsRead("Final composite")
    /\ \E r \in ParamsRead("Vertical blur") : r[1] = "max_blur_radius"

====
